---- MODULE Spec2Model ----
(***************************************************************************)
(* A model of Crystalball: the chunk budget (budget.py, get_budget), the   *)
(* correlation and einsum schemas (crystalball.py, corr_schema and         *)
(* einsum_schema), the sky-model clustering pass (__cluster) and the run   *)
(* of predict() from the budget to the parallel dask.compute of the        *)
(* writes.                                                                 *)
(*                                                                         *)
(* Floating point values are modelled exactly: a float that the code       *)
(* divides is kept as a fraction of integers, and int(sqrt(x)) is the      *)
(* integer square root of floor(x). Rounding of IEEE doubles is left out.  *)
(***************************************************************************)
EXTENDS Integers, Sequences, FiniteSets, TLC

VARIABLES
    budget_in,      \* the arguments of one get_budget call, with the machine
    budget_out,     \* what that call did: pending, returned a plan, or exit
    schema_in,      \* one POLARIZATION row, args.spectra and the tensor sizes
    schema_out,     \* what corr_schema, einsum_schema and da.einsum returned
    cluster_in,     \* the sky model handed to __cluster
    cluster_out,    \* what __cluster did: pending, returned or raised
    run_in,         \* a run of predict(): args and the groups of the MS
    pc,             \* where predict() is
    gi,             \* the group the loop over xds_from_ms is at
    chunks,         \* args.row_chunks, args.model_chunks as get_budget set them
    writes,         \* the list of write operations built so far
    task,           \* the state of each write's task under dask.compute
    store,          \* the output column of the MS, per group
    error,          \* the exception that ended the run, if any
    time_in,        \* the TIME column of one group, row by row
    time_out        \* what da.unique(..., return_inverse=True) returned

budget_vars == <<budget_in, budget_out>>
schema_vars == <<schema_in, schema_out>>
cluster_vars == <<cluster_in, cluster_out>>

run_vars == <<run_in, pc, gi, chunks, writes, task, store, error>>

time_vars == <<time_in, time_out>>

vars == <<budget_vars, schema_vars, cluster_vars, run_vars, time_vars>>

(***************************************************************************)
(* Bounds of the model.                                                    *)
(***************************************************************************)
MaxUserChunk == 2
MaxWorkers == 2
MaxCorr == 5
MaxComp == 2
MaxGroups == 2
MaxRows == 4
MaxTime == 3

(***************************************************************************)
(* The value of each part of the state before its operation has run, and   *)
(* while another part of the program is the one under study.               *)
(***************************************************************************)
BudgetPending == [status |-> "pending", rows_per_chunk |-> 0, sources_per_chunk |-> 0]

BudgetIdle ==
    [nr_sources |-> 0, nr_rows |-> 0, nr_chans |-> 1, nr_corrs |-> 1,
     data_type |-> "complex",
     cb_args |-> [num_workers |-> 0, model_chunks |-> 0, row_chunks |-> 0,
                  memory_fraction |-> [num |-> 1, den |-> 2]],
     systmem |-> 0, cpu_count |-> 1]

Pending == [status |-> "pending"]

SchemaIdle ==
    [pol |-> [NUM_CORR |-> 1, CORR_TYPE |-> <<9>>], dospec |-> FALSE,
     nsource |-> 1, nrow |-> 1, nchan |-> 1]

SchemaPending ==
    [corr |-> Pending, einsum |-> Pending, brightness |-> <<>>, jones |-> Pending]

ClusterPending == [status |-> "pending", exc |-> "", line |-> 0, entries |-> <<>>]

ClusterIdle == [components |-> <<>>, pfitvar_finite |-> TRUE]

NoError == [exc |-> "", line |-> 0]

RunIdle ==
    [args |-> [dontcluster |-> TRUE, row_chunks |-> 0, model_chunks |-> 0,
               num_workers |-> 0, memory_fraction |-> [num |-> 1, den |-> 2],
               exp_sign_convention |-> "casa", spectra |-> FALSE,
               fieldid |-> 0],
     groups |-> <<>>]

\* no run of predict() is under way
RunIsIdle ==
    /\ run_in = RunIdle
    /\ pc = "idle"
    /\ gi = 0
    /\ chunks = BudgetPending
    /\ writes = <<>>
    /\ task = <<>>
    /\ store = <<>>
    /\ error = NoError

TimePending == [status |-> "pending", uniq |-> <<>>, time_index |-> <<>>]

\* no time indexing is under way
TimeIsIdle ==
    /\ time_in = <<>>
    /\ time_out = TimePending

(***************************************************************************)
(* Helpers.                                                                *)
(***************************************************************************)
Min(a, b) == IF a <= b THEN a ELSE b

\* np.sqrt followed by np.int on a non-negative value: Newton's iteration on
\* integers, which ends at floor(sqrt(x)).
RECURSIVE NewtonSqrt(_, _)
NewtonSqrt(x, r) ==
    LET nxt == (r + x \div r) \div 2
    IN  IF nxt >= r THEN r ELSE NewtonSqrt(x, nxt)

ISqrt(x) == IF x = 0 THEN 0 ELSE NewtonSqrt(x, x)

(***************************************************************************)
(* budget.py: get_budget                                                   *)
(***************************************************************************)
\* the defaults of get_budget's keyword arguments
fudge_factor == 2
row2source_ratio == 100

\* np.dtype(...).itemsize of the two data types get_budget knows
data_bytes(data_type) == IF data_type = "complex" THEN 8 ELSE 16

\* nrthreads: psutil.cpu_count() when num_workers is 0
nrthreads(cb_args, cpu_count) ==
    IF cb_args.num_workers = 0 THEN cpu_count ELSE cb_args.num_workers

memory_per_row_source(nr_chans, nr_corrs, data_type) ==
    nr_chans * nr_corrs * data_bytes(data_type) * fudge_factor

\* np.int(np.minimum(nr_rows, np.sqrt(allowed_rowXsource_per_thread *
\* row2source_ratio))), where allowed_rowXsource_per_thread is
\* systmem * memory_fraction / memory_per_row_source / nrthreads.
\* memory_fraction is the fraction num / den.
AutoRows(nr_rows, nr_chans, nr_corrs, data_type, cb_args, systmem, cpu_count) ==
    LET numer == systmem * cb_args.memory_fraction.num * row2source_ratio
        denom == cb_args.memory_fraction.den
                 * memory_per_row_source(nr_chans, nr_corrs, data_type)
                 * nrthreads(cb_args, cpu_count)
    IN  Min(nr_rows, ISqrt(numer \div denom))

\* AutoSources without the cap at nr_sources
AutoSources_NoCap(nr_sources, rows_per_chunk) ==
    rows_per_chunk \div row2source_ratio

\* np.int(np.minimum(nr_sources, rows_per_chunk / row2source_ratio))
AutoSources(nr_sources, rows_per_chunk) ==
    Min(nr_sources, rows_per_chunk \div row2source_ratio)

\* get_budget with the first test written with "or": a single user chunk is
\* taken as an override
get_budget_Or(nr_sources, nr_rows, nr_chans, nr_corrs, data_type, cb_args, systmem, cpu_count) ==
    IF cb_args.model_chunks # 0 \/ cb_args.row_chunks # 0
    THEN [status |-> "returned",
          rows_per_chunk |-> cb_args.row_chunks,
          sources_per_chunk |-> cb_args.model_chunks]
    ELSE [status |-> "returned",
          rows_per_chunk |-> Min(nr_rows, 1),
          sources_per_chunk |-> Min(nr_sources, 1)]

\* The three branches of get_budget: both user chunks set (truthy), both
\* unset, and anything else, which logs and calls sys.exit(1).
get_budget(nr_sources, nr_rows, nr_chans, nr_corrs, data_type, cb_args, systmem, cpu_count) ==
    IF cb_args.model_chunks # 0 /\ cb_args.row_chunks # 0
    THEN [status |-> "returned",
          rows_per_chunk |-> cb_args.row_chunks,
          sources_per_chunk |-> cb_args.model_chunks]
    ELSE IF cb_args.model_chunks = 0 /\ cb_args.row_chunks = 0
    THEN LET rows == AutoRows(nr_rows, nr_chans, nr_corrs, data_type,
                              cb_args, systmem, cpu_count)
         IN  [status |-> "returned",
              rows_per_chunk |-> rows,
              sources_per_chunk |-> AutoSources(nr_sources, rows)]
    ELSE [status |-> "exit", rows_per_chunk |-> 0, sources_per_chunk |-> 0]

\* the values of --memory-fraction the model draws from (default 0.5)
MemoryFractions == {[num |-> 1, den |-> 2], [num |-> 1, den |-> 4], [num |-> 1, den |-> 1]}

CbArgs ==
    [num_workers : 0..MaxWorkers,
     model_chunks : 0..MaxUserChunk,
     row_chunks : 0..MaxUserChunk,
     memory_fraction : MemoryFractions]

\* The totals are 0 or at least the largest user chunk the model draws, so
\* that a user override fits the measurement and the sky model.
BudgetInputs ==
    [nr_sources : {0, 2, 3},
     nr_rows : {2, 99, 100, 250},
     nr_chans : {1, 4},
     nr_corrs : {1, 2, 4},
     data_type : {"complex", "dcomplex"},
     cb_args : CbArgs,
     systmem : {1024, 65536, 4194304},
     cpu_count : {1, 4}]

(***************************************************************************)
(* crystalball.py: corr_schema, einsum_schema and the contraction          *)
(***************************************************************************)
\* corr_schema falling back to a one-element layout instead of raising
corr_schema_Default(p) ==
    IF p.NUM_CORR = 4
    THEN [status |-> "returned",
          schema |-> <<<<p.CORR_TYPE[1], p.CORR_TYPE[2]>>,
                       <<p.CORR_TYPE[3], p.CORR_TYPE[4]>>>>,
          shape |-> <<[axis |-> "corr1", n |-> 2], [axis |-> "corr2", n |-> 2]>>]
    ELSE IF p.NUM_CORR = 2
    THEN [status |-> "returned",
          schema |-> <<p.CORR_TYPE[1], p.CORR_TYPE[2]>>,
          shape |-> <<[axis |-> "corr", n |-> 2]>>]
    ELSE [status |-> "returned",
          schema |-> IF p.CORR_TYPE = <<>> THEN <<>> ELSE <<p.CORR_TYPE[1]>>,
          shape |-> <<[axis |-> "corr", n |-> 1]>>]

\* corr_schema(pol): the correlation types laid out by NUM_CORR, with the
\* shape of the returned list (the axes convert() appends); otherwise the
\* ValueError of line 129.
corr_schema(p) ==
    IF p.NUM_CORR = 4
    THEN [status |-> "returned",
          schema |-> <<<<p.CORR_TYPE[1], p.CORR_TYPE[2]>>,
                       <<p.CORR_TYPE[3], p.CORR_TYPE[4]>>>>,
          shape |-> <<[axis |-> "corr1", n |-> 2], [axis |-> "corr2", n |-> 2]>>]
    ELSE IF p.NUM_CORR = 2
    THEN [status |-> "returned",
          schema |-> <<p.CORR_TYPE[1], p.CORR_TYPE[2]>>,
          shape |-> <<[axis |-> "corr", n |-> 2]>>]
    ELSE IF p.NUM_CORR = 1
    THEN [status |-> "returned",
          schema |-> <<p.CORR_TYPE[1]>>,
          shape |-> <<[axis |-> "corr", n |-> 1]>>]
    ELSE [status |-> "ValueError", schema |-> <<>>, shape |-> <<>>]

\* An einsum string "a, b -> c" as its three subscripts.
Subscripts(a, b, c) == [status |-> "returned", in1 |-> a, in2 |-> b, out |-> c]

\* einsum_schema with the source label left out of the output, so that the
\* contraction sums over the sources
einsum_schema_SumSources(p, spec) ==
    IF p.NUM_CORR = 4
    THEN IF spec
         THEN Subscripts(<<"s", "r", "f">>, <<"s", "f", "i", "j">>,
                         <<"r", "f", "i", "j">>)
         ELSE Subscripts(<<"s", "r", "f">>, <<"s", "i", "j">>,
                         <<"r", "f", "i", "j">>)
    ELSE IF p.NUM_CORR \in {2, 1}
    THEN IF spec
         THEN Subscripts(<<"s", "r", "f">>, <<"s", "f", "i">>,
                         <<"r", "f", "i">>)
         ELSE Subscripts(<<"s", "r", "f">>, <<"s", "i">>,
                         <<"r", "f", "i">>)
    ELSE [status |-> "ValueError", in1 |-> <<>>, in2 |-> <<>>, out |-> <<>>]

\* einsum_schema(pol, dospec): one of four strings, or the ValueError of
\* line 158.
einsum_schema(p, spec) ==
    IF p.NUM_CORR = 4
    THEN IF spec
         THEN Subscripts(<<"s", "r", "f">>, <<"s", "f", "i", "j">>,
                         <<"s", "r", "f", "i", "j">>)
         ELSE Subscripts(<<"s", "r", "f">>, <<"s", "i", "j">>,
                         <<"s", "r", "f", "i", "j">>)
    ELSE IF p.NUM_CORR \in {2, 1}
    THEN IF spec
         THEN Subscripts(<<"s", "r", "f">>, <<"s", "f", "i">>,
                         <<"s", "r", "f", "i">>)
         ELSE Subscripts(<<"s", "r", "f">>, <<"s", "i">>,
                         <<"s", "r", "f", "i">>)
    ELSE [status |-> "ValueError", in1 |-> <<>>, in2 |-> <<>>, out |-> <<>>]

\* phase_delay(lm, uvw, frequency): (source, row, frequency)
phase_shape(in) ==
    <<[axis |-> "source", n |-> in.nsource], [axis |-> "row", n |-> in.nrow],
      [axis |-> "chan", n |-> in.nchan]>>

\* The tensor handed to convert(): spectrum (source, chan, 4) with
\* args.spectra, stokes (source, 4) without.
stokes_shape(in) ==
    IF in.dospec
    THEN <<[axis |-> "source", n |-> in.nsource],
           [axis |-> "chan", n |-> in.nchan], [axis |-> "stokes", n |-> 4]>>
    ELSE <<[axis |-> "source", n |-> in.nsource], [axis |-> "stokes", n |-> 4]>>

\* convert(stokes, ["I","Q","U","V"], corr_schema(pol)): the last (Stokes)
\* axis is replaced by the axes of the correlation schema.
convert(shape, corr) == SubSeq(shape, 1, Len(shape) - 1) \o corr.shape

Range(f) == {f[k] : k \in DOMAIN f}

\* The operand axis a label of the subscripts is bound to (the first operand
\* that carries the label).
AxisOf(label, sub, a, b) ==
    IF label \in Range(sub.in1)
    THEN a[CHOOSE k \in DOMAIN sub.in1 : sub.in1[k] = label]
    ELSE b[CHOOSE k \in DOMAIN sub.in2 : sub.in2[k] = label]

\* da.einsum(subscripts, a, b): the operands must have as many axes as their
\* subscripts have labels, and a label on both must have one size; the result
\* has the axes the output labels name, and every label that is not in the
\* output is summed over.
einsum(sub, a, b) ==
    IF \/ Len(sub.in1) # Len(a)
       \/ Len(sub.in2) # Len(b)
       \/ \E k \in DOMAIN sub.in1, m \in DOMAIN sub.in2 :
             sub.in1[k] = sub.in2[m] /\ a[k].n # b[m].n
    THEN [status |-> "ValueError", shape |-> <<>>, summed |-> {}]
    ELSE [status |-> "returned",
          shape |-> [k \in DOMAIN sub.out |-> AxisOf(sub.out[k], sub, a, b)],
          summed |-> {AxisOf(l, sub, a, b).axis :
                        l \in (Range(sub.in1) \cup Range(sub.in2)) \ Range(sub.out)}]

CorrCodes == {9, 10, 12}

SchemaInputs ==
    {in \in [pol : [NUM_CORR : 0..MaxCorr,
                    CORR_TYPE : UNION {[1..n -> CorrCodes] : n \in 0..MaxCorr}],
             dospec : BOOLEAN,
             nsource : {1, 2}, nrow : {1, 3}, nchan : {1, 2}] :
        Len(in.pol.CORR_TYPE) = in.pol.NUM_CORR}

\* a call of corr_schema(pol)
CallCorrSchema ==
    /\ schema_out.corr.status = "pending"
    /\ schema_out' = [schema_out EXCEPT !.corr = corr_schema(schema_in.pol)]
    /\ UNCHANGED <<time_vars, budget_vars, schema_in, cluster_vars, run_vars>>

\* a call of einsum_schema(pol, args.spectra)
CallEinsumSchema ==
    /\ schema_out.einsum.status = "pending"
    /\ schema_out' = [schema_out EXCEPT
                         !.einsum = einsum_schema(schema_in.pol, schema_in.dospec)]
    /\ UNCHANGED <<time_vars, budget_vars, schema_in, cluster_vars, run_vars>>

\* brightness = convert(...); jones = da.einsum(einsum_schema(...), phase,
\* brightness), once both schemas were returned
Contract ==
    /\ schema_out.corr.status = "returned"
    /\ schema_out.einsum.status = "returned"
    /\ schema_out.jones.status = "pending"
    /\ LET brightness == convert(stokes_shape(schema_in), schema_out.corr)
       IN  schema_out' = [schema_out EXCEPT
                            !.brightness = brightness,
                            !.jones = einsum(schema_out.einsum,
                                             phase_shape(schema_in), brightness)]
    /\ UNCHANGED <<time_vars, budget_vars, schema_in, cluster_vars, run_vars>>

InitSchema ==
    /\ schema_in \in SchemaInputs
    /\ schema_out = SchemaPending
    /\ budget_in = BudgetIdle
    /\ budget_out = BudgetPending
    /\ cluster_in = ClusterIdle
    /\ cluster_out = ClusterPending
    /\ RunIsIdle
    /\ TimeIsIdle

NextSchema == CallCorrSchema \/ CallEinsumSchema \/ Contract

SpecSchema == InitSchema /\ [][NextSchema]_vars

(***************************************************************************)
(* Claims about corr_schema, einsum_schema and the contraction, checked    *)
(* under SpecSchema.                                                       *)
(***************************************************************************)
NumCorr == schema_in.pol.NUM_CORR
CorrType == schema_in.pol.CORR_TYPE

\* C4: for a correlation count outside {1, 2, 4} both corr_schema and
\* einsum_schema raise and return nothing; for 4, 2 and 1 corr_schema returns
\* a 2x2 matrix, a 2-vector and a 1-vector of the correlation types in their
\* given order.
C4_CorrCount ==
    /\ (NumCorr \notin {1, 2, 4} /\ schema_out.corr.status # "pending")
          => schema_out.corr.status = "ValueError"
    /\ (NumCorr \notin {1, 2, 4} /\ schema_out.einsum.status # "pending")
          => schema_out.einsum.status = "ValueError"
    /\ (NumCorr \in {1, 2, 4} /\ schema_out.einsum.status # "pending")
          => schema_out.einsum.status = "returned"
    /\ (NumCorr \in {1, 2, 4} /\ schema_out.corr.status # "pending") =>
          LET m == schema_out.corr.schema
          IN  /\ schema_out.corr.status = "returned"
              /\ NumCorr = 4 =>
                    /\ Len(m) = 2
                    /\ \A i \in 1..2 :
                          /\ Len(m[i]) = 2
                          /\ \A j \in 1..2 : m[i][j] = CorrType[2 * (i - 1) + j]
              /\ NumCorr \in {1, 2} =>
                    /\ Len(m) = NumCorr
                    /\ \A i \in 1..NumCorr : m[i] = CorrType[i]

\* both selections were asked for three correlations, and both raised
C4_Witness ==
    /\ NumCorr = 3
    /\ schema_out.corr.status = "ValueError"
    /\ schema_out.einsum.status = "ValueError"

JonesAxes == [k \in DOMAIN schema_out.jones.shape |-> schema_out.jones.shape[k].axis]
BrightnessAxes == {schema_out.brightness[k].axis : k \in DOMAIN schema_out.brightness}
CorrAxes == IF NumCorr = 4 THEN <<"corr1", "corr2">> ELSE <<"corr">>

\* C10 as claimed: the contraction sums the source axis away and its result
\* keeps exactly the row, frequency and correlation axes; the brightness
\* operand has a frequency axis exactly when the spectral model is on.
C10_SourceSummedByContraction ==
    schema_out.jones.status = "returned" =>
        /\ "source" \in schema_out.jones.summed
        /\ JonesAxes = <<"row", "chan">> \o CorrAxes
        /\ ("chan" \in BrightnessAxes) <=> schema_in.dospec

\* C10 as amended: the pattern is chosen by (4 correlations or not) x
\* (spectral model or not); the contraction sums over no axis and its result
\* keeps the source, row, frequency and correlation axes (2x2 per (source,
\* row, frequency) for 4 correlations, a vector otherwise), each with the
\* size it has in the operands; the brightness operand has a frequency axis
\* exactly when the spectral model is on.
C10_ContractionKeepsSource ==
    /\ schema_out.einsum.status = "returned" =>
          /\ Len(schema_out.einsum.in2)
                = 1 + (IF schema_in.dospec THEN 1 ELSE 0) + Len(CorrAxes)
          /\ Len(schema_out.einsum.out) = 3 + Len(CorrAxes)
    /\ schema_out.jones.status # "pending" =>
          /\ schema_out.jones.status = "returned"
          /\ schema_out.jones.summed = {}
          /\ JonesAxes = <<"source", "row", "chan">> \o CorrAxes
          /\ schema_out.jones.shape[1].n = schema_in.nsource
          /\ schema_out.jones.shape[2].n = schema_in.nrow
          /\ schema_out.jones.shape[3].n = schema_in.nchan
          /\ \A k \in 4..Len(schema_out.jones.shape) :
                schema_out.jones.shape[k].n = (IF NumCorr = 1 THEN 1 ELSE 2)
          /\ ("chan" \in BrightnessAxes) <=> schema_in.dospec

\* a contraction of several sources with 4 correlations and the spectral
\* model on
C10_Witness ==
    /\ schema_out.jones.status = "returned"
    /\ NumCorr = 4
    /\ schema_in.dospec
    /\ schema_in.nsource = 2

(***************************************************************************)
(* crystalball.py: __cluster                                               *)
(***************************************************************************)
\* np.unique(radec) without an axis: the sorted distinct scalars of the
\* flattened (N, 2) array, right ascensions and declinations alike.
np_unique(radec) == UNION {{radec[k][1], radec[k][2]} : k \in DOMAIN radec}

Raised(exc, line) == [status |-> "raised", exc |-> exc, line |-> line, entries |-> <<>>]

\* __cluster(comp_type, radec, ...). With a component in the sky model the
\* loop over uniq_radec is entered and its first statement, comp_type[urd],
\* indexes a numpy array with a float: IndexError. With an empty sky model
\* the loop is skipped and comp_type[radec] on line 247 indexes with a float
\* array: IndexError. (The names spec_coef, frequency, log_spec_coef, Ispoly
\* and nspec_coeff, used on lines 212 to 264, are bound nowhere, so no path
\* through the function reaches its return.)
cluster(comp_type, radec) ==
    IF np_unique(radec) # {}
    THEN Raised("IndexError", 211)
    ELSE Raised("IndexError", 247)

\* positions (ra, dec), as integers standing for distinct float values
Positions == {<<1, 5>>, <<2, 5>>}

Component ==
    [comp_type : {"POINT", "GAUSSIAN"}, radec : Positions,
     stokes_I : {2, 3}, log_spec_ind : BOOLEAN]

\* a sky model of one to MaxComp components, and whether the covariance that
\* curve_fit returns for it is all finite
ClusterInputs ==
    [components : UNION {[1..n -> Component] : n \in 1..MaxComp},
     pfitvar_finite : BOOLEAN]

\* the call of __cluster on line 270
Cluster ==
    /\ cluster_out.status = "pending"
    /\ cluster_out' = cluster([k \in DOMAIN cluster_in.components |->
                                  cluster_in.components[k].comp_type],
                              [k \in DOMAIN cluster_in.components |->
                                  cluster_in.components[k].radec])
    /\ UNCHANGED <<time_vars, budget_vars, schema_vars, cluster_in, run_vars>>

InitCluster ==
    /\ cluster_in \in ClusterInputs
    /\ cluster_out = ClusterPending
    /\ budget_in = BudgetIdle
    /\ budget_out = BudgetPending
    /\ schema_in = SchemaIdle
    /\ schema_out = SchemaPending
    /\ RunIsIdle
    /\ TimeIsIdle

NextCluster == Cluster

SpecCluster == InitCluster /\ [][NextCluster]_vars

(***************************************************************************)
(* Claims about __cluster, checked under SpecCluster.                      *)
(***************************************************************************)
Components == cluster_in.components
PointIdx == {k \in DOMAIN Components : Components[k].comp_type = "POINT"}
PointPositions == {Components[k].radec : k \in PointIdx}
IsGaussian(c) == c.comp_type = "GAUSSIAN"
Gaussians == SelectSeq(Components, IsGaussian)
Entries == cluster_out.entries

RECURSIVE SumI(_)
SumI(idx) ==
    IF idx = {} THEN 0
    ELSE LET k == CHOOSE x \in idx : TRUE
         IN  Components[k].stokes_I + SumI(idx \ {k})

\* C8: for every input catalogue the output holds exactly one POINT entry per
\* distinct position occupied by a point source, followed by every GAUSSIAN
\* input entry unchanged.
C8_OneEntryPerPosition ==
    cluster_out.status # "pending" =>
        /\ cluster_out.status = "returned"
        /\ Len(Entries) = Cardinality(PointPositions) + Len(Gaussians)
        /\ \A p \in PointPositions :
              Cardinality({k \in 1..Cardinality(PointPositions) :
                             /\ Entries[k].comp_type = "POINT"
                             /\ Entries[k].radec = p}) = 1
        /\ SubSeq(Entries, Cardinality(PointPositions) + 1, Len(Entries)) = Gaussians

\* C9: when the refit returns a covariance that is not all finite, clustering
\* still returns, and the entry of each position has a0 equal to the sum of
\* stokes I over all point sources at that position and infinite higher-order
\* coefficients.
C9_FlatFallback ==
    (/\ cluster_out.status # "pending"
     /\ PointPositions # {}
     /\ ~cluster_in.pfitvar_finite) =>
        /\ cluster_out.status = "returned"
        /\ \A p \in PointPositions :
              \E k \in DOMAIN Entries :
                 /\ Entries[k].comp_type = "POINT"
                 /\ Entries[k].radec = p
                 /\ Entries[k].stokes_I
                      = SumI({i \in PointIdx : Components[i].radec = p})
                 /\ Entries[k].spec_coeff = <<"inf", "inf", "inf">>

\* one call of get_budget on the arguments held in budget_in
GetBudget ==
    /\ budget_out.status = "pending"
    /\ budget_out' = get_budget(budget_in.nr_sources, budget_in.nr_rows,
                                budget_in.nr_chans, budget_in.nr_corrs,
                                budget_in.data_type, budget_in.cb_args,
                                budget_in.systmem, budget_in.cpu_count)
    /\ UNCHANGED <<time_vars, budget_in, schema_vars, cluster_vars, run_vars>>

InitBudget ==
    /\ budget_in \in BudgetInputs
    /\ budget_out = BudgetPending
    /\ schema_in = SchemaIdle
    /\ schema_out = SchemaPending
    /\ cluster_in = ClusterIdle
    /\ cluster_out = ClusterPending
    /\ RunIsIdle
    /\ TimeIsIdle

NextBudget == GetBudget

SpecBudget == InitBudget /\ [][NextBudget]_vars

(***************************************************************************)
(* Claims about get_budget, checked under SpecBudget.                      *)
(***************************************************************************)
UserRows == budget_in.cb_args.row_chunks
UserSources == budget_in.cb_args.model_chunks
ExactlyOneUserChunk == (UserRows = 0) # (UserSources = 0)

\* C1: when exactly one of the user row-chunk size and the user source-chunk
\* size is nonzero, the call ends in the fatal exit and returns no chunk plan.
C1_PartialOverrideExits ==
    (budget_out.status # "pending" /\ ExactlyOneUserChunk)
        => budget_out.status = "exit"

C1_Witness ==
    /\ budget_out.status = "exit"
    /\ UserRows > 0
    /\ UserSources = 0

\* C2: every returned chunk plan has rowsPerChunk and sourcesPerChunk that
\* are at least 1 and at most nRows and nSources, whenever the corresponding
\* total is nonzero.
C2_PlanWithinTotals ==
    budget_out.status = "returned" =>
        /\ budget_in.nr_rows >= 1 =>
               /\ budget_out.rows_per_chunk >= 1
               /\ budget_out.rows_per_chunk <= budget_in.nr_rows
        /\ budget_in.nr_sources >= 1 =>
               /\ budget_out.sources_per_chunk >= 1
               /\ budget_out.sources_per_chunk <= budget_in.nr_sources

\* C3: on the auto-sized path rowsPerChunk is min(nRows, floor(sqrt(allowed *
\* rowToSourceRatio))) and sourcesPerChunk is min(nSources, floor(rowsPerChunk
\* / rowToSourceRatio)), with allowed = availableMemoryBytes * memoryFraction
\* / memoryPerRowSource / workerCount and workerCount the configured worker
\* count or, if that is 0, the number of logical CPUs. floor(sqrt(X / D)) is
\* stated as the largest r with r * r * D <= X.
C3_AutoSizing ==
    (budget_out.status = "returned" /\ UserRows = 0 /\ UserSources = 0) =>
        LET b == budget_in
            workerCount == IF b.cb_args.num_workers = 0
                           THEN b.cpu_count ELSE b.cb_args.num_workers
            elementByteSize == IF b.data_type = "dcomplex" THEN 16 ELSE 8
            D == b.cb_args.memory_fraction.den
                 * (b.nr_chans * b.nr_corrs * elementByteSize * 2) * workerCount
            X == b.systmem * b.cb_args.memory_fraction.num * 100
            r == budget_out.rows_per_chunk
            s == budget_out.sources_per_chunk
        IN  /\ r \in 0..b.nr_rows
            /\ r * r * D <= X
            /\ r < b.nr_rows => (r + 1) * (r + 1) * D > X
            /\ s \in 0..b.nr_sources
            /\ s * 100 <= r
            /\ s < b.nr_sources => (s + 1) * 100 > r

\* an auto-sized plan where the square root, not nRows, sets the row chunk,
\* the worker count comes from the CPUs and the source chunk is not zero
C3_Witness ==
    /\ budget_out.status = "returned"
    /\ UserRows = 0
    /\ UserSources = 0
    /\ budget_in.cb_args.num_workers = 0
    /\ budget_out.rows_per_chunk < budget_in.nr_rows
    /\ budget_out.sources_per_chunk >= 1

(***************************************************************************)
(* crystalball.py: predict(), from the clustering pass to dask.compute     *)
(***************************************************************************)
\* What the collaborators of a run return: the sky model of
\* import_from_wsclean, the rows and data type of ms_preprocess, the channels
\* of the SPECTRAL_WINDOW table, and the machine psutil and dask see.
RunSkyModel ==
    <<[comp_type |-> "POINT", radec |-> <<1, 5>>],
      [comp_type |-> "POINT", radec |-> <<1, 5>>],
      [comp_type |-> "GAUSSIAN", radec |-> <<2, 5>>]>>

RunMS ==
    [ms_rows |-> 250, nr_chans |-> 4, ms_datatype |-> "complex",
     systmem |-> 4194304, cpu_count |-> 2]

\* the POLARIZATION row of a group
pol_of(g) == [NUM_CORR |-> g.NUM_CORR, CORR_TYPE |-> [k \in 1..g.NUM_CORR |-> 8 + k]]

\* max([ss.NUM_CORR.data for ss in pol_ds])
RECURSIVE max_corr(_)
max_corr(groups) ==
    IF groups = <<>> THEN 0
    ELSE LET m == max_corr(Tail(groups))
         IN  IF Head(groups).NUM_CORR >= m THEN Head(groups).NUM_CORR ELSE m

\* Lines 323 to 328: the sign of the baseline vectors. The else branch builds
\* its message from args.sign; the parser defines no such option (the
\* convention is args.exp_sign_convention), so evaluating the message raises
\* AttributeError before the ValueError exists.
uvw_sign(args) ==
    IF args.exp_sign_convention = "casa"
    THEN [status |-> "returned", sign |-> -1, exc |-> "", line |-> 0]
    ELSE IF args.exp_sign_convention = "thompson"
    THEN [status |-> "returned", sign |-> 1, exc |-> "", line |-> 0]
    ELSE [status |-> "raised", sign |-> 0, exc |-> "AttributeError", line |-> 328]

\* the visibilities a write stores: predicted with the write's baseline sign
\* and correlation count
vis_of(w) == [uvw_sign |-> w.uvw_sign, corrs |-> w.corrs]

NotWritten == [written |-> FALSE, vis |-> [uvw_sign |-> 0, corrs |-> 0]]

EmptyStore(groups) == [g \in DOMAIN groups |-> NotWritten]

\* the execution of one write: the group's rows of the output column are set
compute_write(st, w) ==
    [st EXCEPT ![w.group] = [written |-> TRUE, vis |-> vis_of(w)]]

\* xds_to_table that writes at once, not when the graph is computed
xds_to_table_Eager(st, w) == compute_write(st, w)

\* xds_to_table(xds, args.ms, [args.output_column]) builds a lazy write: the
\* table is left as it is until the write is computed
xds_to_table(st, w) == st

\* One pass of the loop body (lines 308 to 396) for group k: skipped for
\* another field, ended by an exception, or a write to append.
build_group(args, groups, k) ==
    LET g == groups[k]
        sgn == uvw_sign(args)
    IN  IF g.FIELD_ID # args.fieldid
        THEN [status |-> "skipped", exc |-> "", line |-> 0, uvw_sign |-> 0]
        ELSE IF sgn.status = "raised"
        THEN [status |-> "raised", exc |-> sgn.exc, line |-> sgn.line, uvw_sign |-> 0]
        ELSE IF corr_schema(pol_of(g)).status = "ValueError"
        THEN [status |-> "raised", exc |-> "ValueError", line |-> 129, uvw_sign |-> 0]
        ELSE IF einsum_schema(pol_of(g), args.spectra).status = "ValueError"
        THEN [status |-> "raised", exc |-> "ValueError", line |-> 158, uvw_sign |-> 0]
        ELSE [status |-> "write", exc |-> "", line |-> 0, uvw_sign |-> sgn.sign]

\* the threads dask.compute runs the graph with: num_workers when set, the
\* CPU count otherwise
pool_size(args) == IF args.num_workers # 0 THEN args.num_workers ELSE RunMS.cpu_count

Running == {k \in DOMAIN task : task[k] = "running"}

\* dask.compute returns once every task has started, not once it has finished
AllStarted == \A k \in DOMAIN task : task[k] # "pending"

\* dask.compute(writes) is synchronous: it returns when every task is done
AllComputed == \A k \in DOMAIN task : task[k] = "done"

RunArgs ==
    [dontcluster : BOOLEAN, row_chunks : 0..1, model_chunks : 0..1,
     num_workers : 0..MaxWorkers, memory_fraction : {[num |-> 1, den |-> 2]},
     exp_sign_convention : {"casa", "thompson", "other"},
     spectra : {FALSE}, fieldid : {0}]

Group == [FIELD_ID : {0, 1}, NUM_CORR : {2, 3, 4}]

RunInputs ==
    [args : RunArgs, groups : UNION {[1..n -> Group] : n \in 1..MaxGroups}]

\* lines 267 to 277: the clustering pass, unless --dontcluster
RunCluster ==
    /\ pc = "cluster"
    /\ LET r == cluster([k \in DOMAIN RunSkyModel |-> RunSkyModel[k].comp_type],
                        [k \in DOMAIN RunSkyModel |-> RunSkyModel[k].radec])
       IN  IF ~run_in.args.dontcluster /\ r.status = "raised"
           THEN /\ pc' = "aborted"
                /\ error' = [exc |-> r.exc, line |-> r.line]
           ELSE /\ pc' = "budget"
                /\ UNCHANGED error
    /\ UNCHANGED <<time_vars, budget_vars, schema_vars, cluster_vars,
                   run_in, gi, chunks, writes, task, store>>

\* lines 280 to 283: ms_preprocess and get_budget, which sets args.row_chunks
\* and args.model_chunks or exits
RunBudget ==
    /\ pc = "budget"
    /\ LET r == get_budget(Len(RunSkyModel), RunMS.ms_rows, RunMS.nr_chans,
                           max_corr(run_in.groups), RunMS.ms_datatype,
                           run_in.args, RunMS.systmem, RunMS.cpu_count)
       IN  IF r.status = "exit"
           THEN /\ pc' = "aborted"
                /\ error' = [exc |-> "SystemExit", line |-> 42]
                /\ UNCHANGED chunks
           ELSE /\ pc' = "loop"
                /\ chunks' = r
                /\ UNCHANGED error
    /\ UNCHANGED <<time_vars, budget_vars, schema_vars, cluster_vars,
                   run_in, gi, writes, task, store>>

\* lines 304 to 396: one pass of the loop over the groups of the MS
BuildGroup ==
    /\ pc = "loop"
    /\ gi <= Len(run_in.groups)
    /\ LET r == build_group(run_in.args, run_in.groups, gi)
           w == [group |-> gi, uvw_sign |-> r.uvw_sign,
                 corrs |-> run_in.groups[gi].NUM_CORR]
       IN  \/ /\ r.status = "skipped"
              /\ gi' = gi + 1
              /\ UNCHANGED <<pc, writes, store, error>>
           \/ /\ r.status = "raised"
              /\ pc' = "aborted"
              /\ error' = [exc |-> r.exc, line |-> r.line]
              /\ UNCHANGED <<gi, writes, store>>
           \/ /\ r.status = "write"
              /\ store' = xds_to_table(store, w)
              /\ writes' = Append(writes, w)
              /\ gi' = gi + 1
              /\ UNCHANGED <<pc, error>>
    /\ UNCHANGED <<time_vars, budget_vars, schema_vars, cluster_vars, run_in, chunks, task>>

\* lines 398 to 404: dask.compute(writes) is called
Submit ==
    /\ pc = "loop"
    /\ gi > Len(run_in.groups)
    /\ pc' = "compute"
    /\ task' = [k \in DOMAIN writes |-> "pending"]
    /\ UNCHANGED <<time_vars, budget_vars, schema_vars, cluster_vars,
                   run_in, gi, chunks, writes, store, error>>

\* a free thread of the pool takes a task
StartTask(k) ==
    /\ pc = "compute"
    /\ task[k] = "pending"
    /\ Cardinality(Running) < pool_size(run_in.args)
    /\ task' = [task EXCEPT ![k] = "running"]
    /\ UNCHANGED <<time_vars, budget_vars, schema_vars, cluster_vars,
                   run_in, pc, gi, chunks, writes, store, error>>

\* a running task ends: its write reaches the table
FinishTask(k) ==
    /\ pc = "compute"
    /\ task[k] = "running"
    /\ task' = [task EXCEPT ![k] = "done"]
    /\ store' = compute_write(store, writes[k])
    /\ UNCHANGED <<time_vars, budget_vars, schema_vars, cluster_vars,
                   run_in, pc, gi, chunks, writes, error>>

\* dask.compute returns to predict(), which returns
ComputeReturns ==
    /\ pc = "compute"
    /\ AllComputed
    /\ pc' = "done"
    /\ UNCHANGED <<time_vars, budget_vars, schema_vars, cluster_vars,
                   run_in, gi, chunks, writes, task, store, error>>

Init ==
    /\ run_in \in RunInputs
    /\ pc = "cluster"
    /\ gi = 1
    /\ chunks = BudgetPending
    /\ writes = <<>>
    /\ task = <<>>
    /\ store = EmptyStore(run_in.groups)
    /\ error = NoError
    /\ budget_in = BudgetIdle
    /\ budget_out = BudgetPending
    /\ schema_in = SchemaIdle
    /\ schema_out = SchemaPending
    /\ cluster_in = ClusterIdle
    /\ cluster_out = ClusterPending
    /\ TimeIsIdle

Next ==
    \/ RunCluster
    \/ RunBudget
    \/ BuildGroup
    \/ Submit
    \/ \E k \in DOMAIN task : StartTask(k)
    \/ \E k \in DOMAIN task : FinishTask(k)
    \/ ComputeReturns

Spec == Init /\ [][Next]_vars

(***************************************************************************)
(* Claims about the run of predict(), checked under Spec.                  *)
(***************************************************************************)
Convention == run_in.args.exp_sign_convention

\* the loop has come to a group of the selected field
SelectedGroupReached ==
    \/ \E k \in 1..(gi - 1) : run_in.groups[k].FIELD_ID = run_in.args.fieldid
    \/ /\ pc = "aborted"
       /\ error.exc \notin {"IndexError", "SystemExit"}

\* C5: with 'casa' the baseline vectors of every write are the negated UVW,
\* with 'thompson' the UVW unmodified, and with any other convention the run
\* ends, at the first group of the selected field, in a fatal error reported
\* as an invalid sign convention (the ValueError of line 328), with no
\* visibility produced.
C5_SignSelection ==
    /\ \A k \in DOMAIN writes :
          /\ Convention = "casa" => writes[k].uvw_sign = -1
          /\ Convention = "thompson" => writes[k].uvw_sign = 1
    /\ (Convention \notin {"casa", "thompson"} /\ SelectedGroupReached) =>
          /\ pc = "aborted"
          /\ error.exc = "ValueError"
          /\ writes = <<>>

\* the result of running the writes one after the other, in list order, on
\* one thread
RECURSIVE SequentialStore(_, _)
SequentialStore(ws, st) ==
    IF ws = <<>> THEN st
    ELSE SequentialStore(Tail(ws), compute_write(st, Head(ws)))

\* C6: the driving call returns only after every submitted task has
\* completed, whatever the worker count and the order of completion; the MS
\* then holds exactly one result per submitted write, each the one sequential
\* single-threaded execution produces.
C6_AllTasksCompleted ==
    pc = "done" =>
        /\ DOMAIN task = DOMAIN writes
        /\ \A k \in DOMAIN task : task[k] = "done"
        /\ Cardinality({g \in DOMAIN store : store[g].written}) = Len(writes)
        /\ store = SequentialStore(writes, EmptyStore(run_in.groups))

\* a run with the default worker count has returned with two writes done
C6_Witness ==
    /\ pc = "done"
    /\ Len(writes) >= 2
    /\ run_in.args.num_workers = 0

\* C7: a run that ends in a fatal error (partial chunk-size override, invalid
\* sign convention, invalid correlation count in a group of the selected
\* field) has executed no task and written no visibility to the MS, also when
\* writes were built before the faulty group; until dask.compute is called
\* the MS is untouched.
C7_AbortBeforeScheduling ==
    /\ pc = "aborted" =>
          /\ task = <<>>
          /\ store = EmptyStore(run_in.groups)
          /\ error.exc # ""
    /\ pc \in {"cluster", "budget", "loop"} =>
          /\ task = <<>>
          /\ store = EmptyStore(run_in.groups)

\* the run was ended by the correlation count of a later group, after a write
\* had been built for an earlier one
C7_Witness ==
    /\ pc = "aborted"
    /\ error = [exc |-> "ValueError", line |-> 129]
    /\ Len(writes) >= 1

(***************************************************************************)
(* crystalball.py: the time indices of line 380                            *)
(***************************************************************************)
\* the values of a set in ascending order, as np.unique returns them
RECURSIVE Sorted(_)
Sorted(S) ==
    IF S = {} THEN <<>>
    ELSE LET lo == CHOOSE x \in S : \A y \in S : x <= y
         IN  <<lo>> \o Sorted(S \ {lo})

\* the 0-based place of value v in sequence u
PlaceOf(v, u) == (CHOOSE k \in DOMAIN u : u[k] = v) - 1

\* the 0-based number of value t[k] among the values of t, counted in the
\* order in which they first occur
FirstOccurrenceRank(t, k) ==
    Cardinality({t[i] : i \in {j \in 1..k : \A h \in 1..(j - 1) : t[h] # t[j]}}) - 1

\* unique that numbers the values in the order of their first occurrence
da_unique_FirstOccurrence(t) ==
    [status |-> "returned",
     uniq |-> Sorted(Range(t)),
     time_index |-> [k \in DOMAIN t |-> FirstOccurrenceRank(t, k)]]

\* da.unique(xds.TIME.data, return_inverse=True): the sorted distinct values,
\* and for each row the 0-based place of its value among them
da_unique(t) ==
    LET u == Sorted(Range(t))
    IN  [status |-> "returned",
         uniq |-> u,
         time_index |-> [k \in DOMAIN t |-> PlaceOf(t[k], u)]]

\* the TIME column of a group: up to MaxRows rows, in any order; the
\* integers stand for distinct float timestamps
TimeInputs == UNION {[1..n -> 1..MaxTime] : n \in 0..MaxRows}

\* line 380: _, time_index = da.unique(xds.TIME.data, return_inverse=True)
TimeIndex ==
    /\ time_out.status = "pending"
    /\ time_out' = da_unique(time_in)
    /\ UNCHANGED <<time_in, budget_vars, schema_vars, cluster_vars, run_vars>>

InitTime ==
    /\ time_in \in TimeInputs
    /\ time_out = TimePending
    /\ budget_in = BudgetIdle
    /\ budget_out = BudgetPending
    /\ schema_in = SchemaIdle
    /\ schema_out = SchemaPending
    /\ cluster_in = ClusterIdle
    /\ cluster_out = ClusterPending
    /\ RunIsIdle

NextTime == TimeIndex

SpecTime == InitTime /\ [][NextTime]_vars

(***************************************************************************)
(* Claims about the time indices, checked under SpecTime.                  *)
(***************************************************************************)
Idx == time_out.time_index

\* equal timestamps share an index, distinct timestamps do not, and the
\* indices used are exactly 0..k-1 for k distinct timestamps
DenseIndex ==
    /\ DOMAIN Idx = DOMAIN time_in
    /\ \A i, j \in DOMAIN time_in : (time_in[i] = time_in[j]) <=> (Idx[i] = Idx[j])
    /\ Range(Idx) = 0..(Cardinality(Range(time_in)) - 1)

\* C11 as claimed: the time index is dense and one-to-one on the distinct
\* timestamps, and the indices are numbered in the order of first occurrence:
\* the first row has index 0 and each row has either an index seen before or
\* the next unused one.
C11_FirstOccurrenceOrder ==
    time_out.status = "returned" =>
        /\ DenseIndex
        /\ \A k \in DOMAIN Idx :
              \/ \E h \in 1..(k - 1) : Idx[h] = Idx[k]
              \/ Idx[k] = Cardinality({Idx[h] : h \in 1..(k - 1)})

\* C11 as amended: the time index is dense and one-to-one on the distinct
\* timestamps, and the indices are numbered in ascending order of the
\* timestamp: an earlier timestamp has a smaller index, wherever its rows are.
C11_AscendingOrder ==
    time_out.status = "returned" =>
        /\ DenseIndex
        /\ \A i, j \in DOMAIN time_in : (time_in[i] < time_in[j]) <=> (Idx[i] < Idx[j])

\* rows that are not in ascending order of time, with a repeated timestamp,
\* have been indexed
C11_Witness ==
    /\ time_out.status = "returned"
    /\ Len(time_in) >= 3
    /\ time_in[1] > time_in[2]
    /\ time_in[3] = time_in[1]

====
